---- MODULE Spec2Model ----
(***************************************************************************)
(* The three study-session engines of the study-aid application            *)
(* (Flashcards, Memorise, Test), the page coordinator's mastery update and *)
(* the two storage documents they read and write.                          *)
(*                                                                         *)
(* Cards are numbered 1..n in the order of studySet.cards.  A React event  *)
(* handler is one action: it reads the state of the render it was created  *)
(* in and its state updates are applied together when it returns.          *)
(***************************************************************************)
EXTENDS Integers, Sequences, FiniteSets, TLC

\* ------------------------------------------------------------------ bounds
\* Largest study set of a Test session.
TestCards == 4
\* Largest number of times one Test queue entry lineage is re-queued while
\* instance ids are tracked.
MaxGen == 3

\* Largest study set of a Flashcards session.
FlashCards == 3
\* Largest study set of a Flashcards session that keeps the set's order.
UnshuffledCards == 5
\* Largest study set of a Memorise session.
MemCards == 4
\* Largest wordsPerLevel setting considered (the slider starts at MinWordsPerLevel).
MaxWordsPerLevel == 3
\* Largest level number recorded while levels are tracked.
MaxLevel == 4

\* Largest study set whose Test queue is built question by question.
LoadCards == 2
\* Largest study set handed to the local distractor fallback.
FallbackCards == 3
\* Number of different definition texts the cards of a set are drawn from
\* (two cards may carry the same definition).
TextCount == 2
\* Largest numberOfChoices setting considered (the setting ranges over 2-6).
MaxChoices == 4
\* Largest count asked of the local distractor fallback.
MaxCount == 5
\* Most initTest runs in flight at once after language changes.
MaxReinits == 2
\* days of the calendar, and the longest streak an account starts with
MaxDay == 3
MaxStreak == 2

\* ------------------------------------------------------- program constants
MinChoices == 2
DefaultNumberOfChoices == 4
MinWordsPerLevel == 3
DefaultMasteryThreshold == 3
RatingStep == 20
MaxMastery == 100

VARIABLES
    activeStudyMode,        \* StudySetsPage.activeStudyMode: which engine is mounted
    cards,                  \* studySet.cards, the ids in set order
    studySetMastery,        \* studySet.mastery as passed to the engine (activeSet snapshot)
    profile,                \* mastery map of the set in the profile document (key ..._v5)
    legacy,                 \* the document under key ..._v3 that TestMode reads and writes
    tracking,               \* TRUE: instance ids are recorded (and capped by MaxGen)
    \* ---- TestMode
    testQueue,              \* queue: sequence of [originalCardId, id]
    consecutiveCorrectMap,  \* card -> in-session streak
    selectedAnswer,         \* chosen option, NoAnswer when null
    isAnswered,
    testFeedback,           \* "correct" | "incorrect" | "none"
    isFinished,
    \* ---- FlashcardsMode
    sessionState,           \* "setup" | "active" | "finished"
    mode,                   \* "standard" | "memorise_all"
    initialCards,           \* the set's cards, shuffled once per mount
    flashQueue,             \* queue: sequence of card ids
    masteredIds,
    currentIndex,           \* 0-based cursor of standard mode
    sessionMasteredCount,
    \* ---- MemoriseMode
    wordsPerLevel,          \* settings.memoriseMode.wordsPerLevel
    enableRetryLevel1,      \* settings.memoriseMode.enableRetryLevel1
    level,
    overallMasteredIds,
    view,                   \* "question" | "transition" | "finished"
    phase,                  \* "normal" | "retry"
    currentQueue,           \* sequence of card ids (one question per card)
    unmasteredFromPrevLevel,
    remainingSetCards,
    currentQuestionIndex,   \* 0-based
    levelMasteredIds,
    answeredIncorrectlyIds,
    feedback,               \* "correct" | "incorrect" | "none"
    timer,                  \* the pending setTimeout: the render state its callback closes over
    levelCards,             \* history: the cards of the current level's normal-phase queue
    \* ---- environment
    storageThrows,          \* localStorage.setItem throws (quota exceeded, storage disabled)
    mounted,                \* the engine's component is mounted (FALSE once the session
                            \* has ended or an uncaught render error has removed the tree)
    \* ---- profile statistics and the calendar
    studyStreak,            \* userProfile.stats.studyStreak
    lastStudiedDate,        \* userProfile.stats.lastStudiedDate as a day number, NoDate when null
    today,                  \* the current day number
    clockChanges,           \* the days d whose local midnight is not 24 h before that of d + 1
    \* ---- TestMode's initTest
    numberOfChoices,        \* settings.numberOfChoices
    shuffleChoices,         \* settings.shuffleChoices
    definitions,            \* card -> card.definition
    isLoading,
    reinitsPending,         \* initTest runs started by a language change that still await
                            \* their distractors
    allDistractors,         \* card -> the settled generateDistractors promise, if settled
    questionOptions,        \* options of the initial queue's questions, in queue order
    \* ---- a call of getFallbackDistractors(correctCard, studySet.cards, count)
    correctCard,
    count,
    fallbackResult

flashVars == <<sessionState, mode, initialCards, flashQueue, masteredIds,
               currentIndex, sessionMasteredCount>>
memVars == <<wordsPerLevel, enableRetryLevel1, level, overallMasteredIds, view, phase,
             currentQueue, unmasteredFromPrevLevel, remainingSetCards,
             currentQuestionIndex, levelMasteredIds, answeredIncorrectlyIds,
             feedback, timer, levelCards>>
testVars == <<testQueue, consecutiveCorrectMap, selectedAnswer, isAnswered,
              testFeedback, isFinished>>
sharedVars == <<activeStudyMode, cards, studySetMastery, profile, legacy, tracking>>
envVars == <<storageThrows, mounted>>
statsVars == <<studyStreak, lastStudiedDate, today, clockChanges>>
loadVars == <<numberOfChoices, shuffleChoices, definitions, isLoading, reinitsPending,
              allDistractors, questionOptions, correctCard, count, fallbackResult>>
vars == <<sharedVars, testVars, flashVars, memVars, envVars, statsVars, loadVars>>

\* ------------------------------------------------------------ data model
Min(a, b) == IF a < b THEN a ELSE b
Max(a, b) == IF a > b THEN a ELSE b

AllCards == 1..Max(Max(TestCards, UnshuffledCards), Max(FlashCards, MemCards))

\* A CardMasteryRecord; exists = FALSE stands for a missing map entry.
NoRecord == [exists |-> FALSE, mastery |-> 0, consecutiveCorrect |-> 0,
             attempts |-> 0, lastReviewed |-> "never"]

\* The only records the profile document can hold before a session: the ones
\* handleUpdateMastery creates (consecutiveCorrect 0, attempts 0).
RatedRecord(m) == [exists |-> TRUE, mastery |-> m, consecutiveCorrect |-> 0,
                   attempts |-> 0, lastReviewed |-> "earlier"]

NoMastery == [c \in AllCards |-> NoRecord]

\* The document under 'studymate_user_profile_v3'.  No code of the
\* application creates it: it is absent, or a leftover with its own settings
\* that may or may not hold a set with the id of the active set.
NoDoc == [present |-> FALSE, autoSave |-> TRUE,
          masteryThreshold |-> DefaultMasteryThreshold,
          hasSet |-> FALSE, mastery |-> NoMastery]

LegacyDocs ==
    {NoDoc} \cup
    { [present |-> TRUE, autoSave |-> a, masteryThreshold |-> t,
       hasSet |-> h, mastery |-> NoMastery] :
         a \in BOOLEAN, t \in {2}, h \in BOOLEAN }

\* settings = profile?.settings?.testMode || {defaults}
TestSettings ==
    IF legacy.present
      THEN [autoSave |-> legacy.autoSave, masteryThreshold |-> legacy.masteryThreshold]
      ELSE [autoSave |-> TRUE, masteryThreshold |-> DefaultMasteryThreshold]

\* settings.masteryThreshold || 3
Threshold ==
    IF TestSettings.masteryThreshold = 0 THEN DefaultMasteryThreshold
    ELSE TestSettings.masteryThreshold

\* Math.round(a / b) for a >= 0, b > 0 (round half up).
RoundDiv(a, b) == (2 * a + b) \div (2 * b)

\* Math.min(100, Math.round((newConsecutive / threshold) * 100))
MasteryPct(newConsecutive, threshold) ==
    Min(MaxMastery, RoundDiv(100 * newConsecutive, threshold))

\* Options of a question: the card's definition and the distractors.
NoAnswer == <<>>
Definition(c) == <<"definition", c>>
WrongOption == <<"distractor">>
Options(c) == {Definition(c), WrongOption}

\* ------------------------------------------------------------ sequences
SeqRemoveHead(s) == SubSeq(s, 2, Len(s))
\* Array.prototype.splice(idx, 0, e) with 0-based idx <= length
InsertAt(s, idx, e) == SubSeq(s, 1, idx) \o <<e>> \o SubSeq(s, idx + 1, Len(s))
Range(s) == {s[i] : i \in 1..Len(s)}

\* Array.prototype.filter over a sequence of card ids.
RECURSIVE FilterSeq(_, _)
FilterSeq(s, keep) ==
    IF s = <<>> THEN <<>>
    ELSE (IF s[1] \in keep THEN <<s[1]>> ELSE <<>>) \o FilterSeq(Tail(s), keep)

\* The results a comparator shuffle (sort(() => 0.5 - Math.random())) can give.
Shuffles(s) == { [i \in 1..Len(s) |-> s[p[i]]] : p \in Permutations(1..Len(s)) }

\* ------------------------------------------------------------- TestMode
\* id of a re-queued entry: `retry-${id}-...` / `retry-wrong-${id}-...`,
\* recorded as the number of prefixes when ids are tracked.
RequeuedId(id) == IF tracking THEN id + 1 ELSE id

\* saveProgress that takes one off the stored streak after an incorrect answer.
SaveProgressStreakDecremented(doc, cardId, isCorrect) ==
    IF ~TestSettings.autoSave THEN doc
    ELSE IF ~doc.present THEN doc
    ELSE IF ~doc.hasSet THEN doc
    ELSE IF storageThrows THEN doc
    ELSE
      LET cardMastery == doc.mastery[cardId]
          newConsecutive == IF isCorrect THEN cardMastery.consecutiveCorrect + 1
                            ELSE cardMastery.consecutiveCorrect - 1
      IN  [doc EXCEPT !.mastery[cardId] =
              [exists |-> TRUE,
               consecutiveCorrect |-> newConsecutive,
               mastery |-> MasteryPct(newConsecutive, Threshold),
               lastReviewed |-> "now",
               attempts |-> cardMastery.attempts + 1]]

\* saveProgress: the resulting 'studymate_user_profile_v3' document.
SaveProgress(doc, cardId, isCorrect) ==
    IF ~TestSettings.autoSave THEN doc
    ELSE IF ~doc.present THEN doc
    ELSE IF ~doc.hasSet THEN doc
    ELSE IF storageThrows THEN doc
    ELSE
      LET cardMastery == doc.mastery[cardId]
          newConsecutive == IF isCorrect THEN cardMastery.consecutiveCorrect + 1 ELSE 0
      IN  [doc EXCEPT !.mastery[cardId] =
              [exists |-> TRUE,
               consecutiveCorrect |-> newConsecutive,
               mastery |-> MasteryPct(newConsecutive, Threshold),
               lastReviewed |-> "now",
               attempts |-> cardMastery.attempts + 1]]

\* initTest, after the distractors arrived: the queue and the seeded streaks.
InitTestQueue(order) ==
    [i \in 1..Len(order) |-> [originalCardId |-> order[i], id |-> 0]]

InitStreaks(order) ==
    [c \in AllCards |->
        IF c \in Range(order) THEN studySetMastery[c].consecutiveCorrect ELSE 0]

\* handleAnswer that leaves the streak of a correctly answered card as it was.
HandleAnswerStreakKept(option) ==
    /\ activeStudyMode = "test"
    /\ mounted
    /\ ~isLoading
    /\ ~isFinished
    /\ testQueue # <<>>
    /\ ~isAnswered
    /\ LET currentQ == testQueue[1]
           isCorrect == option = Definition(currentQ.originalCardId)
       IN  /\ option \in Options(currentQ.originalCardId)
           /\ tracking => currentQ.id < MaxGen
           /\ selectedAnswer' = option
           /\ isAnswered' = TRUE
           /\ testFeedback' = IF isCorrect THEN "correct" ELSE "incorrect"
           /\ consecutiveCorrectMap' =
                 [consecutiveCorrectMap EXCEPT ![currentQ.originalCardId] =
                     IF isCorrect THEN @ ELSE 0]
           /\ legacy' = SaveProgress(legacy, currentQ.originalCardId, isCorrect)
    /\ UNCHANGED <<activeStudyMode, cards, studySetMastery, profile, tracking, envVars, statsVars, loadVars,
                   testQueue, isFinished, flashVars, memVars>>

\* handleAnswer without its `if (isAnswered) return`.
HandleAnswerUnguarded(option) ==
    /\ activeStudyMode = "test"
    /\ mounted
    /\ ~isLoading
    /\ ~isFinished
    /\ testQueue # <<>>
    /\ LET currentQ == testQueue[1]
           isCorrect == option = Definition(currentQ.originalCardId)
           currentStreak == consecutiveCorrectMap[currentQ.originalCardId] + 1
       IN  /\ option \in Options(currentQ.originalCardId)
           /\ tracking => currentQ.id < MaxGen
           /\ selectedAnswer' = option
           /\ isAnswered' = TRUE
           /\ testFeedback' = IF isCorrect THEN "correct" ELSE "incorrect"
           /\ consecutiveCorrectMap' =
                 [consecutiveCorrectMap EXCEPT ![currentQ.originalCardId] =
                     IF isCorrect THEN currentStreak ELSE 0]
           /\ legacy' = SaveProgress(legacy, currentQ.originalCardId, isCorrect)
    /\ UNCHANGED <<activeStudyMode, cards, studySetMastery, profile, tracking, envVars, statsVars, loadVars,
                   testQueue, isFinished, flashVars, memVars>>

\* handleAnswer that takes one off the streak on an incorrect answer.
HandleAnswerStreakDecremented(option) ==
    /\ activeStudyMode = "test"
    /\ mounted
    /\ ~isLoading
    /\ ~isFinished
    /\ testQueue # <<>>
    /\ ~isAnswered
    /\ LET currentQ == testQueue[1]
           isCorrect == option = Definition(currentQ.originalCardId)
           currentStreak == consecutiveCorrectMap[currentQ.originalCardId] + 1
       IN  /\ option \in Options(currentQ.originalCardId)
           /\ tracking => currentQ.id < MaxGen
           /\ selectedAnswer' = option
           /\ isAnswered' = TRUE
           /\ testFeedback' = IF isCorrect THEN "correct" ELSE "incorrect"
           /\ consecutiveCorrectMap' =
                 [consecutiveCorrectMap EXCEPT ![currentQ.originalCardId] =
                     IF isCorrect THEN currentStreak
                     ELSE Max(consecutiveCorrectMap[currentQ.originalCardId] - 1, 0)]
           /\ legacy' = SaveProgress(legacy, currentQ.originalCardId, isCorrect)
    /\ UNCHANGED <<activeStudyMode, cards, studySetMastery, profile, tracking, envVars, statsVars, loadVars,
                   testQueue, isFinished, flashVars, memVars>>

\* handleAnswer(option)
HandleAnswer(option) ==
    /\ activeStudyMode = "test"
    /\ mounted
    /\ ~isLoading
    /\ ~isFinished
    /\ testQueue # <<>>
    /\ ~isAnswered
    /\ LET currentQ == testQueue[1]
           isCorrect == option = Definition(currentQ.originalCardId)
           currentStreak == consecutiveCorrectMap[currentQ.originalCardId] + 1
       IN  /\ option \in Options(currentQ.originalCardId)
           /\ tracking => currentQ.id < MaxGen
           /\ selectedAnswer' = option
           /\ isAnswered' = TRUE
           /\ testFeedback' = IF isCorrect THEN "correct" ELSE "incorrect"
           /\ consecutiveCorrectMap' =
                 [consecutiveCorrectMap EXCEPT ![currentQ.originalCardId] =
                     IF isCorrect THEN currentStreak ELSE 0]
           /\ legacy' = SaveProgress(legacy, currentQ.originalCardId, isCorrect)
    /\ UNCHANGED <<activeStudyMode, cards, studySetMastery, profile, tracking, envVars, statsVars, loadVars,
                   testQueue, isFinished, flashVars, memVars>>

\* handleNext with the wrongly answered card re-queued at the end.
NextQueueWrongAtEnd(queue, selected, streaks, threshold) ==
    LET currentQ == queue[1]
        isCorrect == selected = Definition(currentQ.originalCardId)
        newQueue == SeqRemoveHead(queue)
        again == [currentQ EXCEPT !.id = RequeuedId(currentQ.id)]
    IN  IF isCorrect /\ streaks[currentQ.originalCardId] >= threshold
          THEN newQueue ELSE Append(newQueue, again)

\* handleNext that re-queues a correctly answered card whatever its streak.
NextQueueMasteredRequeued(queue, selected, streaks, threshold) ==
    LET currentQ == queue[1]
        isCorrect == selected = Definition(currentQ.originalCardId)
        newQueue == SeqRemoveHead(queue)
        again == [currentQ EXCEPT !.id = RequeuedId(currentQ.id)]
    IN  IF isCorrect THEN Append(newQueue, again)
        ELSE InsertAt(newQueue, Min(Len(newQueue), 2), again)

\* handleNext that drops a correctly answered card whatever its streak.
NextQueueDropOnCorrect(queue, selected, streaks, threshold) ==
    LET currentQ == queue[1]
        isCorrect == selected = Definition(currentQ.originalCardId)
        newQueue == SeqRemoveHead(queue)
        again == [currentQ EXCEPT !.id = RequeuedId(currentQ.id)]
    IN  IF isCorrect THEN newQueue
        ELSE InsertAt(newQueue, Min(Len(newQueue), 2), again)

\* handleNext that leaves the answered entry in place beside its re-queued copy.
NextQueueHeadKept(queue, selected, streaks, threshold) ==
    LET currentQ == queue[1]
        isCorrect == selected = Definition(currentQ.originalCardId)
        currentStreak == streaks[currentQ.originalCardId]
        newQueue == queue
        again == [currentQ EXCEPT !.id = RequeuedId(currentQ.id)]
    IN  IF isCorrect
          THEN IF currentStreak < threshold THEN Append(SeqRemoveHead(queue), again)
               ELSE SeqRemoveHead(queue)
          ELSE InsertAt(newQueue, Min(Len(newQueue), 2), again)

\* The queue handleNext computes.
NextQueue(queue, selected, streaks, threshold) ==
    LET currentQ == queue[1]
        isCorrect == selected = Definition(currentQ.originalCardId)
        currentStreak == streaks[currentQ.originalCardId]
        newQueue == SeqRemoveHead(queue)
        again == [currentQ EXCEPT !.id = RequeuedId(currentQ.id)]
    IN  IF isCorrect
          THEN IF currentStreak < threshold THEN Append(newQueue, again) ELSE newQueue
          ELSE InsertAt(newQueue, Min(Len(newQueue), 2), again)

\* handleNext
HandleNext ==
    /\ activeStudyMode = "test"
    /\ mounted
    /\ ~isLoading
    /\ ~isFinished
    /\ testQueue # <<>>
    /\ isAnswered
    /\ LET newQueue == NextQueue(testQueue, selectedAnswer, consecutiveCorrectMap, Threshold)
       IN  /\ testQueue' = newQueue
           /\ IF newQueue = <<>>
                THEN /\ isFinished' = TRUE
                     /\ UNCHANGED <<selectedAnswer, isAnswered, testFeedback>>
                ELSE /\ selectedAnswer' = NoAnswer
                     /\ isAnswered' = FALSE
                     /\ testFeedback' = "none"
                     /\ UNCHANGED isFinished
    /\ UNCHANGED <<sharedVars, envVars, statsVars, loadVars, consecutiveCorrectMap, flashVars, memVars>>

TestNext == (\E option \in {Definition(c) : c \in AllCards} \cup {WrongOption} :
                HandleAnswer(option))
            \/ HandleNext


\* ------------------------------------------------- TestMode: building questions
\* Strings: definition texts and the generic placeholders.
Text(k) == <<"text", k>>
GenericDistractors == << <<"Incorrect Answer", "A">>, <<"Incorrect Answer", "B">>,
                         <<"Incorrect Answer", "C">>, <<"Incorrect Answer", "D">> >>

\* Set.prototype.add on a Set kept in insertion order.
SetAdd(options, x) == IF x \in Range(options) THEN options ELSE Append(options, x)
\* Array.prototype.splice(i, 1), 1-based i
RemoveAt(s, i) == SubSeq(s, 1, i - 1) \o SubSeq(s, i + 1, Len(s))

\* getFallbackDistractors, first loop: random other cards' definitions.
RECURSIVE SampleDistractors(_, _, _)
SampleDistractors(options, distractors, cnt) ==
    IF Len(options) < cnt /\ Len(distractors) > 0
      THEN UNION { SampleDistractors(SetAdd(options, definitions[distractors[randomIndex]]),
                                     RemoveAt(distractors, randomIndex), cnt) :
                     randomIndex \in 1..Len(distractors) }
      ELSE {options}

\* getFallbackDistractors, second loop: generic placeholders.
RECURSIVE FillGeneric(_, _, _)
FillGeneric(options, genIdx, cnt) ==
    IF Len(options) < cnt /\ genIdx < Len(GenericDistractors)
      THEN FillGeneric(SetAdd(options, GenericDistractors[genIdx + 1]), genIdx + 1, cnt)
      ELSE options

\* getFallbackDistractors(correctCard, allCards, count): the arrays it can return.
GetFallbackDistractors(card, allCards, cnt) ==
    { FillGeneric(sampled, 0, cnt) :
        sampled \in SampleDistractors(<<>>, FilterSeq(allCards, Range(allCards) \ {card}), cnt) }

\* (settings.numberOfChoices || 4) - 1
DistractorCount ==
    (IF numberOfChoices = 0 THEN DefaultNumberOfChoices ELSE numberOfChoices) - 1

\* What the generative service can answer: a failure (network error, rate
\* limit, unparsable text) or a list of strings of any length, which may
\* repeat a string or contain a definition of the set.
ProviderTexts == {Text(1), Text(TextCount + 1)}
Responses(cnt) ==
    {[ok |-> FALSE, distractors |-> <<>>]} \cup
    {[ok |-> TRUE, distractors |-> d] :
        d \in UNION {[1..k -> ProviderTexts] : k \in 0..(cnt + 1)}}

\* generateDistractors: what it resolves to for a response.
GenerateDistractors(response, cnt) ==
    IF ~response.ok THEN <<>>
    ELSE IF Len(response.distractors) < cnt THEN response.distractors
    ELSE SubSeq(response.distractors, 1, cnt)

Pending == [settled |-> FALSE, value |-> <<>>]

\* One generateDistractors promise settles.
SettleDistractors(card) ==
    /\ activeStudyMode = "test"
    /\ mounted
    /\ isLoading
    /\ card \in Range(cards)
    /\ ~allDistractors[card].settled
    /\ \E response \in Responses(DistractorCount) :
          allDistractors' = [allDistractors EXCEPT ![card] =
              [settled |-> TRUE, value |-> GenerateDistractors(response, DistractorCount)]]
    /\ UNCHANGED <<sharedVars, testVars, flashVars, memVars, envVars, statsVars, numberOfChoices,
                   shuffleChoices, definitions, isLoading, reinitsPending,
                   questionOptions, correctCard, count, fallbackResult>>

\* The options initTest can give the question of a card.
OptionsOf(card) ==
    LET distractors == IF Len(allDistractors[card].value) > 0
                         THEN {allDistractors[card].value}
                         ELSE GetFallbackDistractors(card, cards, DistractorCount)
    IN  UNION { IF shuffleChoices THEN Shuffles(<<definitions[card]>> \o d)
                ELSE {<<definitions[card]>> \o d} : d \in distractors }

\* The option lists of the whole queue, in queue order.
RECURSIVE OptionLists(_)
OptionLists(order) ==
    IF order = <<>> THEN {<<>>}
    ELSE { <<o>> \o rest : o \in OptionsOf(order[1]), rest \in OptionLists(Tail(order)) }

\* initTest after `await Promise.all(distractorPromises)`
InitTest ==
    /\ activeStudyMode = "test"
    /\ mounted
    /\ isLoading
    /\ \A card \in Range(cards) : allDistractors[card].settled
    /\ questionOptions' \in OptionLists(cards)
    /\ testQueue' = InitTestQueue(cards)
    /\ consecutiveCorrectMap' = InitStreaks(cards)
    /\ isLoading' = FALSE
    /\ UNCHANGED <<sharedVars, flashVars, memVars, envVars, statsVars, selectedAnswer, isAnswered,
                   testFeedback, isFinished, numberOfChoices, shuffleChoices, definitions,
                   reinitsPending, allDistractors, correctCard, count, fallbackResult>>

LoadNext == (\E card \in AllCards : SettleDistractors(card)) \/ InitTest

\* Header.toggleLanguage during a Test session: the effect on
\* [studySet, language] runs initTest again, which shows the loader.
ToggleLanguage ==
    /\ activeStudyMode = "test"
    /\ mounted
    /\ reinitsPending < MaxReinits
    /\ reinitsPending' = reinitsPending + 1
    /\ isLoading' = TRUE
    /\ UNCHANGED <<sharedVars, testVars, flashVars, memVars, envVars, statsVars,
                   numberOfChoices, shuffleChoices, definitions, allDistractors,
                   questionOptions, correctCard, count, fallbackResult>>

\* An initTest run started by a language change gets its distractors and
\* finishes: queue rebuilt, streaks reseeded, loader hidden.  The options of
\* the rebuilt questions are not recorded.
ReInitTest ==
    /\ activeStudyMode = "test"
    /\ mounted
    /\ reinitsPending > 0
    /\ reinitsPending' = reinitsPending - 1
    /\ testQueue' = InitTestQueue(cards)
    /\ consecutiveCorrectMap' = InitStreaks(cards)
    /\ isLoading' = FALSE
    /\ UNCHANGED <<sharedVars, flashVars, memVars, envVars, statsVars, selectedAnswer,
                   isAnswered, testFeedback, isFinished, numberOfChoices, shuffleChoices,
                   definitions, allDistractors, questionOptions, correctCard, count,
                   fallbackResult>>

ReinitNext == ToggleLanguage \/ ReInitTest

NotCalled == [called |-> FALSE, value |-> <<>>]

\* getFallbackDistractors(correctCard, studySet.cards, count) is called and returns.
CallGetFallbackDistractors ==
    /\ activeStudyMode = "test"
    /\ mounted
    /\ isLoading
    /\ ~fallbackResult.called
    /\ \E result \in GetFallbackDistractors(correctCard, cards, count) :
          fallbackResult' = [called |-> TRUE, value |-> result]
    /\ UNCHANGED <<sharedVars, testVars, flashVars, memVars, envVars, statsVars, numberOfChoices,
                   shuffleChoices, definitions, isLoading, reinitsPending,
                   allDistractors, questionOptions, correctCard, count>>

\* -------------------------------------------------------- FlashcardsMode
\* StudySetsPage.handleUpdateMastery: the profile's mastery map after the upsert.
HandleUpdateMastery(prev, cardId, newMastery) ==
    [prev EXCEPT ![cardId] =
        [exists |-> TRUE,
         consecutiveCorrect |-> prev[cardId].consecutiveCorrect,
         attempts |-> prev[cardId].attempts,
         mastery |-> Min(MaxMastery, Max(0, newMastery)),
         lastReviewed |-> "now"]]

\* handleRating's newMastery, from the mastery it reads.
RatedMastery(currentMastery, rating) ==
    IF rating = "dont_know" THEN Max(0, currentMastery - RatingStep)
    ELSE Min(MaxMastery, currentMastery + RatingStep)

\* studySet.mastery[currentCard.id]?.mastery || 0, read from the engine's prop.
CurrentMastery(cardId) == studySetMastery[cardId].mastery

\* currentCard; 0 when undefined.
CurrentCard ==
    IF mode = "standard"
      THEN IF currentIndex < Len(flashQueue) THEN flashQueue[currentIndex + 1] ELSE 0
      ELSE IF flashQueue # <<>> THEN flashQueue[1] ELSE 0

\* setMode on the setup screen
SetMode(m) ==
    /\ activeStudyMode = "flashcards"
    /\ mounted
    /\ sessionState = "setup"
    /\ mode # m
    /\ mode' = m
    /\ UNCHANGED <<sharedVars, envVars, statsVars, loadVars, testVars, memVars, sessionState, initialCards,
                   flashQueue, masteredIds, currentIndex, sessionMasteredCount>>

\* startSession, from the setup screen or from the finished screen
StartSession ==
    /\ activeStudyMode = "flashcards"
    /\ mounted
    /\ sessionState \in {"setup", "finished"}
    /\ flashQueue' = initialCards
    /\ currentIndex' = 0
    /\ sessionMasteredCount' = 0
    /\ masteredIds' = {}
    /\ sessionState' = "active"
    /\ UNCHANGED <<sharedVars, envVars, statsVars, loadVars, testVars, memVars, mode, initialCards>>

\* handleNextCardStandard that finishes one card early.
HandleNextCardStandardEarly ==
    /\ IF currentIndex < Len(flashQueue) - 2
         THEN currentIndex' = currentIndex + 1 /\ UNCHANGED sessionState
         ELSE sessionState' = "finished" /\ UNCHANGED currentIndex
    /\ UNCHANGED <<flashQueue, masteredIds, sessionMasteredCount>>

\* handleNextCardStandard
HandleNextCardStandard ==
    /\ IF currentIndex < Len(flashQueue) - 1
         THEN currentIndex' = currentIndex + 1 /\ UNCHANGED sessionState
         ELSE sessionState' = "finished" /\ UNCHANGED currentIndex
    /\ UNCHANGED <<flashQueue, masteredIds, sessionMasteredCount>>

\* handleNextCardMemorise that moves a card rated "don't know" to the back.
MemoriseQueueToBack(queue, rating) ==
    LET card == queue[1]
        newQueue == SeqRemoveHead(queue)
    IN  IF rating = "know" THEN newQueue ELSE Append(newQueue, card)

\* The queue handleNextCardMemorise computes.
MemoriseQueue(queue, rating) ==
    LET card == queue[1]
        newQueue == SeqRemoveHead(queue)
    IN  IF rating = "know" THEN newQueue
        ELSE InsertAt(newQueue, Min(Len(newQueue), 3), card)

\* handleNextCardMemorise that does not count a card rated "know".
HandleNextCardMemoriseUncounted(rating) ==
    LET card == flashQueue[1]
        newQueue == MemoriseQueue(flashQueue, rating)
    IN  /\ flashQueue' = newQueue
        /\ IF rating = "know"
             THEN /\ masteredIds' = masteredIds \cup {card}
                  /\ UNCHANGED sessionMasteredCount
             ELSE UNCHANGED <<sessionMasteredCount, masteredIds>>
        /\ sessionState' = IF newQueue = <<>> THEN "finished" ELSE sessionState
        /\ UNCHANGED currentIndex

\* handleNextCardMemorise(rating)
HandleNextCardMemorise(rating) ==
    LET card == flashQueue[1]
        newQueue == MemoriseQueue(flashQueue, rating)
    IN  /\ flashQueue' = newQueue
        /\ IF rating = "know"
             THEN /\ sessionMasteredCount' = sessionMasteredCount + 1
                  /\ masteredIds' = masteredIds \cup {card}
             ELSE UNCHANGED <<sessionMasteredCount, masteredIds>>
        /\ sessionState' = IF newQueue = <<>> THEN "finished" ELSE sessionState
        /\ UNCHANGED currentIndex

\* handleRating(rating), from a button or an arrow key of the active screen
HandleRating(rating) ==
    /\ activeStudyMode = "flashcards"
    /\ mounted
    /\ sessionState = "active"
    /\ CurrentCard # 0
    /\ IF storageThrows
         THEN \* updateUserProfile's updater throws while App renders: no error
              \* boundary, the tree is unmounted and no update is committed
              /\ mounted' = FALSE
              /\ UNCHANGED <<profile, sessionState, flashQueue, masteredIds,
                             currentIndex, sessionMasteredCount>>
         ELSE /\ profile' = HandleUpdateMastery(profile, CurrentCard,
                                RatedMastery(CurrentMastery(CurrentCard), rating))
              /\ IF mode = "standard" THEN HandleNextCardStandard
                 ELSE HandleNextCardMemorise(rating)
              /\ UNCHANGED mounted
    /\ UNCHANGED <<activeStudyMode, cards, studySetMastery, legacy, tracking,
                   testVars, memVars, mode, initialCards, storageThrows, statsVars,
                   loadVars>>

FlashNext == (\E m \in {"standard", "memorise_all"} : SetMode(m))
             \/ StartSession
             \/ (\E rating \in {"know", "dont_know"} : HandleRating(rating))

\* ---------------------------------------------------------- MemoriseMode
\* Array.prototype.slice(0, end) and slice(start), negative indices included.
SliceIndex(len, i) == IF i < 0 THEN Max(len + i, 0) ELSE Min(i, len)
SliceTo(s, end) == SubSeq(s, 1, SliceIndex(Len(s), end))
SliceFrom(s, start) == SubSeq(s, SliceIndex(Len(s), start) + 1, Len(s))

NoTimer == [pending |-> FALSE]

\* The state of the render an answer handler runs in: what the timer's
\* advance -> handleEndOfQueue -> finishLevel will read.
Closure ==
    [pending |-> TRUE,
     currentQuestionIndex |-> currentQuestionIndex,
     currentQueue |-> currentQueue,
     phase |-> phase,
     level |-> level,
     answeredIncorrectlyIds |-> answeredIncorrectlyIds,
     levelMasteredIds |-> levelMasteredIds,
     overallMasteredIds |-> overallMasteredIds]

\* level + 1, as recorded
NextLevel(lvl) == IF tracking THEN lvl + 1 ELSE 2

\* startLevel(lvl, unmastered, remaining)
StartLevel(lvl, unmastered, remaining) ==
    LET slotsAvailable == wordsPerLevel - Len(unmastered)
        newCards == SliceTo(remaining, slotsAvailable)
        newRemaining == SliceFrom(remaining, slotsAvailable)
        rawQueue == unmastered \o newCards
    IN  /\ currentQueue' \in Shuffles(rawQueue)
        /\ unmasteredFromPrevLevel' = unmastered
        /\ remainingSetCards' = newRemaining
        /\ level' = lvl
        /\ currentQuestionIndex' = 0
        /\ levelMasteredIds' = {}
        /\ answeredIncorrectlyIds' = {}
        /\ phase' = "normal"
        /\ view' = "question"
        /\ feedback' = "none"
        /\ levelCards' = Range(rawQueue)

\* startRetryPhase(mistakes)
StartRetryPhase(mistakes) ==
    /\ currentQueue' = FilterSeq(cards, mistakes)
    /\ currentQuestionIndex' = 0
    /\ phase' = "retry"
    /\ view' = "question"
    /\ feedback' = "none"

\* processAnswer that marks the card mastered whatever the answer.
ProcessAnswerAlwaysMastered(isCorrect) ==
    /\ activeStudyMode = "memorise"
    /\ mounted
    /\ view = "question"
    /\ feedback = "none"
    /\ currentQuestionIndex < Len(currentQueue)
    /\ LET cardId == currentQueue[currentQuestionIndex + 1]
       IN  /\ feedback' = IF isCorrect THEN "correct" ELSE "incorrect"
           /\ levelMasteredIds' =
                 IF phase = "normal" THEN levelMasteredIds \cup {cardId} ELSE levelMasteredIds
           /\ answeredIncorrectlyIds' =
                 IF phase = "normal" /\ ~isCorrect
                   THEN answeredIncorrectlyIds \cup {cardId} ELSE answeredIncorrectlyIds
    /\ timer' = Closure
    /\ UNCHANGED <<sharedVars, envVars, statsVars, loadVars, testVars, flashVars, wordsPerLevel, enableRetryLevel1,
                   level, overallMasteredIds, view, phase, currentQueue,
                   unmasteredFromPrevLevel, remainingSetCards, currentQuestionIndex,
                   levelCards>>

\* handleMCQAnswer / handleInputAnswer -> processAnswer(isCorrect, cardId)
ProcessAnswer(isCorrect) ==
    /\ activeStudyMode = "memorise"
    /\ mounted
    /\ view = "question"
    /\ feedback = "none"
    /\ currentQuestionIndex < Len(currentQueue)
    /\ LET cardId == currentQueue[currentQuestionIndex + 1]
       IN  /\ feedback' = IF isCorrect THEN "correct" ELSE "incorrect"
           /\ levelMasteredIds' =
                 IF phase = "normal" /\ isCorrect /\ cardId \notin answeredIncorrectlyIds
                   THEN levelMasteredIds \cup {cardId} ELSE levelMasteredIds
           /\ answeredIncorrectlyIds' =
                 IF phase = "normal" /\ ~isCorrect
                   THEN answeredIncorrectlyIds \cup {cardId} ELSE answeredIncorrectlyIds
    /\ timer' = Closure
    /\ UNCHANGED <<sharedVars, envVars, statsVars, loadVars, testVars, flashVars, wordsPerLevel, enableRetryLevel1,
                   level, overallMasteredIds, view, phase, currentQueue,
                   unmasteredFromPrevLevel, remainingSetCards, currentQuestionIndex,
                   levelCards>>

\* handleDontKnow without its `if (feedback) return`.
HandleDontKnowUnguarded ==
    /\ activeStudyMode = "memorise"
    /\ mounted
    /\ view = "question"
    /\ currentQuestionIndex < Len(currentQueue)
    /\ LET cardId == currentQueue[currentQuestionIndex + 1]
       IN  answeredIncorrectlyIds' =
              IF phase = "normal"
                THEN answeredIncorrectlyIds \cup {cardId} ELSE answeredIncorrectlyIds
    /\ feedback' = "incorrect"
    /\ timer' = Closure
    /\ UNCHANGED <<sharedVars, envVars, statsVars, loadVars, testVars, flashVars, wordsPerLevel, enableRetryLevel1,
                   level, overallMasteredIds, view, phase, currentQueue,
                   unmasteredFromPrevLevel, remainingSetCards, currentQuestionIndex,
                   levelMasteredIds, levelCards>>

\* handleDontKnow
HandleDontKnow ==
    /\ activeStudyMode = "memorise"
    /\ mounted
    /\ view = "question"
    /\ feedback = "none"
    /\ currentQuestionIndex < Len(currentQueue)
    /\ LET cardId == currentQueue[currentQuestionIndex + 1]
       IN  answeredIncorrectlyIds' =
              IF phase = "normal"
                THEN answeredIncorrectlyIds \cup {cardId} ELSE answeredIncorrectlyIds
    /\ feedback' = "incorrect"
    /\ timer' = Closure
    /\ UNCHANGED <<sharedVars, envVars, statsVars, loadVars, testVars, flashVars, wordsPerLevel, enableRetryLevel1,
                   level, overallMasteredIds, view, phase, currentQueue,
                   unmasteredFromPrevLevel, remainingSetCards, currentQuestionIndex,
                   levelMasteredIds, levelCards>>

\* finishLevel, reading the render state `cl`
FinishLevel(cl) ==
    /\ overallMasteredIds' = cl.overallMasteredIds \cup cl.levelMasteredIds
    /\ view' = "transition"
    /\ UNCHANGED <<currentQueue, currentQuestionIndex, phase, feedback>>

\* handleEndOfQueue, reading the render state `cl`
HandleEndOfQueue(cl) ==
    IF cl.phase = "normal" /\ cl.level = 1 /\ enableRetryLevel1
         /\ Cardinality(cl.answeredIncorrectlyIds) > 0
      THEN StartRetryPhase(cl.answeredIncorrectlyIds) /\ UNCHANGED overallMasteredIds
      ELSE FinishLevel(cl)

\* The setTimeout callback: advance(), of the render the answer was given in.
\* No handler clears the timer, so it also fires after the component has been
\* unmounted; the state updates it then requests are dropped by React.
Advance ==
    /\ activeStudyMode = "memorise"
    /\ timer.pending
    /\ IF ~mounted
         THEN UNCHANGED <<currentQuestionIndex, feedback, overallMasteredIds, view,
                          phase, currentQueue>>
         ELSE IF timer.currentQuestionIndex < Len(timer.currentQueue) - 1
         THEN /\ currentQuestionIndex' = currentQuestionIndex + 1
              /\ feedback' = "none"
              /\ UNCHANGED <<overallMasteredIds, view, phase, currentQueue>>
         ELSE HandleEndOfQueue(timer)
    /\ timer' = NoTimer
    /\ UNCHANGED <<sharedVars, envVars, statsVars, loadVars, testVars, flashVars, wordsPerLevel, enableRetryLevel1,
                   level, unmasteredFromPrevLevel, remainingSetCards, levelMasteredIds,
                   answeredIncorrectlyIds, levelCards>>

\* proceedToNextLevel's carryOver
CarryOver ==
    LET allMastered == overallMasteredIds \cup levelMasteredIds
        futureCards == Range(remainingSetCards)
    IN  FilterSeq(cards, Range(cards) \ (allMastered \cup futureCards))

\* proceedToNextLevel, the button of the transition screen
ProceedToNextLevel ==
    /\ activeStudyMode = "memorise"
    /\ mounted
    /\ view = "transition"
    /\ tracking => level < MaxLevel
    /\ IF Len(CarryOver) = 0 /\ Len(remainingSetCards) = 0
         THEN /\ view' = "finished"
              /\ UNCHANGED <<level, phase, currentQueue, unmasteredFromPrevLevel,
                             remainingSetCards, currentQuestionIndex, levelMasteredIds,
                             answeredIncorrectlyIds, feedback, levelCards>>
         ELSE StartLevel(NextLevel(level), CarryOver, remainingSetCards)
    /\ UNCHANGED <<sharedVars, envVars, statsVars, loadVars, testVars, flashVars, wordsPerLevel, enableRetryLevel1,
                   overallMasteredIds, timer>>

MemNext == (\E isCorrect \in BOOLEAN : ProcessAnswer(isCorrect))
           \/ HandleDontKnow
           \/ Advance
           \/ ProceedToNextLevel

\* ------------------------------------------- StudySetsPage: ending a session
\* lastStudiedDate: null
NoDate == 0

\* areDatesConsecutive(date1Str, date2Str): both dates moved to local
\* midnight, then compared with 24 * 60 * 60 * 1000 ms.
AreDatesConsecutive(date1, date2) == date2 - date1 = 1 /\ date1 \notin clockChanges

\* handleSessionEnd's updater: the new studyStreak.
NewStreak(streak, lastStudied, day) ==
    IF lastStudied # day
      THEN IF lastStudied # NoDate /\ AreDatesConsecutive(lastStudied, day)
             THEN streak + 1 ELSE 1
      ELSE streak

\* handleSessionEnd, the onSessionEnd of MemoriseMode and FlashcardsMode
\* (Exit / back / finish buttons)
HandleSessionEnd ==
    /\ activeStudyMode \in {"memorise", "flashcards"}
    /\ mounted
    /\ activeStudyMode = "memorise" => view \in {"question", "finished"}
    /\ IF storageThrows
         THEN UNCHANGED <<studyStreak, lastStudiedDate>>
         ELSE /\ studyStreak' = NewStreak(studyStreak, lastStudiedDate, today)
              /\ lastStudiedDate' = today
    /\ mounted' = FALSE
    /\ UNCHANGED <<sharedVars, testVars, flashVars, memVars, storageThrows, today,
                   clockChanges, loadVars>>

\* TestMode's onSessionEnd: () => setView('dashboard')
TestSessionEnd ==
    /\ activeStudyMode = "test"
    /\ mounted
    /\ ~isLoading
    /\ mounted' = FALSE
    /\ UNCHANGED <<sharedVars, testVars, flashVars, memVars, storageThrows, statsVars,
                   loadVars>>

\* Midnight passes.
NextDay ==
    /\ today < MaxDay
    /\ today' = today + 1
    /\ UNCHANGED <<sharedVars, testVars, flashVars, memVars, envVars, studyStreak,
                   lastStudiedDate, clockChanges, loadVars>>

SessionEndNext == HandleSessionEnd \/ TestSessionEnd \/ NextDay

\* ------------------------------------------------------------ initial states
\* The profile document before the session: some cards rated earlier.
InitProfiles ==
    { [c \in AllCards |-> IF c = 1 THEN r ELSE NoRecord] :
        r \in {NoRecord, RatedRecord(40)} }

\* The statistics of a new account, on the first day.
StatsIdle ==
    /\ studyStreak = 0
    /\ lastStudiedDate = NoDate
    /\ today = 1
    /\ clockChanges = {}

\* The statistics of an account that may have studied before: a streak of
\* at least one day once a session has been ended.
StatsAny ==
    /\ today \in 1..MaxDay
    /\ lastStudiedDate \in {NoDate} \cup 1..today
    /\ studyStreak \in (IF lastStudiedDate = NoDate THEN {0} ELSE 1..MaxStreak)
    /\ clockChanges \in {{}} \cup {{d} : d \in 1..MaxDay}

\* Engines that are not mounted hold their useState initial values.
TestIdle ==
    /\ testQueue = <<>>
    /\ consecutiveCorrectMap = [c \in AllCards |-> 0]
    /\ selectedAnswer = NoAnswer
    /\ isAnswered = FALSE
    /\ testFeedback = "none"
    /\ isFinished = FALSE

FlashIdle ==
    /\ sessionState = "setup"
    /\ mode = "standard"
    /\ initialCards = <<>>
    /\ flashQueue = <<>>
    /\ masteredIds = {}
    /\ currentIndex = 0
    /\ sessionMasteredCount = 0

MemIdle ==
    /\ wordsPerLevel = MinWordsPerLevel
    /\ enableRetryLevel1 = TRUE
    /\ level = 1
    /\ overallMasteredIds = {}
    /\ view = "question"
    /\ phase = "normal"
    /\ currentQueue = <<>>
    /\ unmasteredFromPrevLevel = <<>>
    /\ remainingSetCards = <<>>
    /\ currentQuestionIndex = 0
    /\ levelMasteredIds = {}
    /\ answeredIncorrectlyIds = {}
    /\ feedback = "none"
    /\ timer = NoTimer
    /\ levelCards = {}

\* No getFallbackDistractors call is being followed.
FallbackIdle ==
    /\ correctCard = 1
    /\ count = 0
    /\ fallbackResult = NotCalled

\* initTest is not running; card c carries a definition of its own.
LoadIdle ==
    /\ numberOfChoices = DefaultNumberOfChoices
    /\ shuffleChoices = TRUE
    /\ definitions = [c \in AllCards |-> Text(c)]
    /\ isLoading = FALSE
    /\ reinitsPending = 0
    /\ allDistractors = [c \in AllCards |-> Pending]
    /\ questionOptions = <<>>
    /\ FallbackIdle

\* TestMode mounted on a set of 1..LoadCards cards, initTest waiting for the
\* distractor promises.  Two cards may carry the same definition text.
LoadInit ==
    /\ activeStudyMode = "test"
    /\ storageThrows = FALSE
    /\ StatsIdle
    /\ mounted = TRUE
    /\ \E n \in 1..LoadCards :
          /\ cards = [i \in 1..n |-> i]
          /\ \E d \in [1..n -> 1..TextCount] :
                definitions = [c \in AllCards |-> IF c <= n THEN Text(d[c]) ELSE Text(c)]
    /\ profile = NoMastery
    /\ studySetMastery = profile
    /\ legacy = NoDoc
    /\ tracking = TRUE
    /\ numberOfChoices \in MinChoices..MaxChoices
    /\ shuffleChoices \in BOOLEAN
    /\ isLoading = TRUE
    /\ reinitsPending = 0
    /\ allDistractors = [c \in AllCards |-> Pending]
    /\ questionOptions = <<>>
    /\ FallbackIdle
    /\ TestIdle
    /\ FlashIdle
    /\ MemIdle

\* A call getFallbackDistractors(correctCard, studySet.cards, count) made
\* while initTest builds the questions of a set of 1..FallbackCards cards.
FallbackInit ==
    /\ activeStudyMode = "test"
    /\ storageThrows = FALSE
    /\ StatsIdle
    /\ mounted = TRUE
    /\ \E n \in 1..FallbackCards :
          /\ cards = [i \in 1..n |-> i]
          /\ \E d \in [1..n -> 1..TextCount] :
                definitions = [c \in AllCards |-> IF c <= n THEN Text(d[c]) ELSE Text(c)]
          /\ correctCard \in 1..n
    /\ count \in 0..MaxCount
    /\ fallbackResult = NotCalled
    /\ profile = NoMastery
    /\ studySetMastery = profile
    /\ legacy = NoDoc
    /\ tracking = TRUE
    /\ numberOfChoices = DefaultNumberOfChoices
    /\ shuffleChoices = TRUE
    /\ isLoading = TRUE
    /\ reinitsPending = 0
    /\ allDistractors = [c \in AllCards |-> Pending]
    /\ questionOptions = <<>>
    /\ TestIdle
    /\ FlashIdle
    /\ MemIdle

\* TestMode mounted on a set of 1..TestCards cards, initTest done; `throws`
\* tells whether the browser's storage rejects writes.
TestMount(track, docs, throws) ==
    /\ activeStudyMode = "test"
    /\ storageThrows = throws
    /\ \E n \in 1..TestCards : cards = [i \in 1..n |-> i]
    /\ profile \in InitProfiles
    /\ studySetMastery = profile
    /\ legacy \in docs
    /\ tracking = track
    /\ testQueue = InitTestQueue(cards)
    /\ consecutiveCorrectMap = InitStreaks(cards)
    /\ selectedAnswer = NoAnswer
    /\ isAnswered = FALSE
    /\ testFeedback = "none"
    /\ isFinished = FALSE
    /\ mounted = TRUE
    /\ LoadIdle
    /\ FlashIdle
    /\ MemIdle

TestInitWith(track, docs) == TestMount(track, docs, FALSE) /\ StatsIdle
TestInit == TestInitWith(TRUE, LegacyDocs)

\* FlashcardsMode mounted with settings.preferences.shuffle off: initialCards
\* is the set in its own order.
FlashInitUnshuffled ==
    /\ activeStudyMode = "flashcards"
    /\ storageThrows = FALSE
    /\ StatsIdle
    /\ \E n \in 1..UnshuffledCards : cards = [i \in 1..n |-> i]
    /\ profile \in InitProfiles
    /\ studySetMastery = profile
    /\ legacy = NoDoc
    /\ tracking = TRUE
    /\ sessionState = "setup"
    /\ mode \in {"standard", "memorise_all"}
    /\ initialCards = cards
    /\ flashQueue = <<>>
    /\ masteredIds = {}
    /\ currentIndex = 0
    /\ sessionMasteredCount = 0
    /\ mounted = TRUE
    /\ LoadIdle
    /\ TestIdle
    /\ MemIdle

\* FlashcardsMode mounted on a set of 1..FlashCards cards, on its setup screen.
FlashMount(throws) ==
    /\ activeStudyMode = "flashcards"
    /\ storageThrows = throws
    /\ \E n \in 1..FlashCards : cards = [i \in 1..n |-> i]
    /\ profile \in InitProfiles
    /\ studySetMastery = profile
    /\ legacy = NoDoc
    /\ tracking = TRUE
    /\ sessionState = "setup"
    /\ mode \in {"standard", "memorise_all"}
    /\ initialCards \in Shuffles(cards)
    /\ flashQueue = <<>>
    /\ masteredIds = {}
    /\ currentIndex = 0
    /\ sessionMasteredCount = 0
    /\ mounted = TRUE
    /\ LoadIdle
    /\ TestIdle
    /\ MemIdle

FlashInit == FlashMount(FALSE) /\ StatsIdle

\* MemoriseMode mounted on a set of 1..MemCards cards, its mount effect done:
\* the set shuffled once and startLevel(1, [], shuffled) applied.
MemMount(track) ==
    /\ activeStudyMode = "memorise"
    /\ storageThrows = FALSE
    /\ \E n \in 1..MemCards : cards = [i \in 1..n |-> i]
    /\ profile = NoMastery
    /\ studySetMastery = profile
    /\ legacy = NoDoc
    /\ tracking = track
    /\ wordsPerLevel \in MinWordsPerLevel..MaxWordsPerLevel
    /\ enableRetryLevel1 \in BOOLEAN
    /\ \E shuffled \in Shuffles(cards) :
          /\ currentQueue \in Shuffles(SliceTo(shuffled, wordsPerLevel))
          /\ remainingSetCards = SliceFrom(shuffled, wordsPerLevel)
          /\ levelCards = Range(SliceTo(shuffled, wordsPerLevel))
    /\ unmasteredFromPrevLevel = <<>>
    /\ level = 1
    /\ overallMasteredIds = {}
    /\ view = "question"
    /\ phase = "normal"
    /\ currentQuestionIndex = 0
    /\ levelMasteredIds = {}
    /\ answeredIncorrectlyIds = {}
    /\ feedback = "none"
    /\ timer = NoTimer
    /\ mounted = TRUE
    /\ LoadIdle
    /\ TestIdle
    /\ FlashIdle

MemInitWith(track) == MemMount(track) /\ StatsIdle
MemInit == MemInitWith(TRUE)

\* Test and Flashcards sessions in a browser whose storage rejects writes.
StorageFullInit == (TestMount(TRUE, LegacyDocs, TRUE) \/ FlashMount(TRUE)) /\ StatsIdle

\* Sessions of the three engines, opened on any day of an account's life
\* and ended from the screen they open on.
SessionEndInit ==
    (TestMount(TRUE, {NoDoc}, FALSE) \/ FlashMount(FALSE) \/ MemMount(TRUE)) /\ StatsAny

Init == TestInit \/ FlashInit \/ FlashInitUnshuffled \/ MemInit \/ LoadInit
        \/ FallbackInit \/ StorageFullInit
Next == TestNext \/ FlashNext \/ MemNext \/ LoadNext \/ CallGetFallbackDistractors
        \/ SessionEndNext \/ ReinitNext
Spec == Init /\ [][Next]_vars

SpecTest == TestInit /\ [][TestNext]_vars
SpecFlash == FlashInit /\ [][FlashNext]_vars
SpecFlashUnshuffled == FlashInitUnshuffled /\ [][FlashNext]_vars

\* The learner keeps rating: whenever a rating button of the active screen
\* stays available, a rating is eventually given.
FlashRatings == \E rating \in {"know", "dont_know"} : HandleRating(rating)
SpecFlashLive == FlashInitUnshuffled /\ [][FlashNext]_vars /\ WF_vars(FlashRatings)
SpecMem == MemInit /\ [][MemNext]_vars

\* Sessions of the three engines with a working storage.
SessionsInit == TestInit \/ FlashInit \/ MemInit
SessionsNext == TestNext \/ FlashNext \/ MemNext
SpecSessions == SessionsInit /\ [][SessionsNext]_vars

SpecSessionEnd == SessionEndInit /\ [][SessionEndNext]_vars

\* Memorise sessions the learner may leave at any question.
SpecMemExit == MemInit /\ [][MemNext \/ HandleSessionEnd]_vars

SpecStorageFull == StorageFullInit /\ [][TestNext \/ FlashNext]_vars

\* Test sessions during which the learner may switch the language.  The v3 document is absent, as the application leaves it.
SpecTestReinit == TestInitWith(TRUE, {NoDoc}) /\ [][TestNext \/ ReinitNext]_vars

\* initTest from the mount of TestMode to the first question.
SpecInitTest == LoadInit /\ [][LoadNext]_vars

\* Calls of the local distractor fallback.
SpecFallback == FallbackInit /\ [][CallGetFallbackDistractors]_vars


\* The learner keeps answering and advancing; the browser runs every handler.
TestFairness ==
    /\ WF_vars(HandleNext)
    /\ WF_vars(\E option \in {Definition(c) : c \in AllCards} \cup {WrongOption} :
                  HandleAnswer(option))

\* Test sessions with instance ids left out of the state, so that a session
\* of any length is a behaviour; the v3 document, if any, is one saveProgress
\* leaves alone (no auto-save, or no set with the active set's id).
LiveDocs == {d \in LegacyDocs : ~(d.autoSave /\ d.hasSet)}
SpecTestLive == TestInitWith(FALSE, LiveDocs) /\ [][TestNext]_vars /\ TestFairness

\* ================================================================ claims

\* ---- Test mode
AnsweredCard == testQueue[1].originalCardId
TestAnswerPending == activeStudyMode = "test" /\ isAnswered /\ ~isFinished /\ testQueue # <<>>

\* The record the claim expects for a card whose in-session streak is s.
HoldsStreak(rec, s) ==
    /\ rec.exists
    /\ rec.mastery = Min(100, RoundDiv(100 * s, Threshold))
    /\ rec.consecutiveCorrect = s

\* C1: in Test mode with auto-save enabled, right after an answer the persisted
\* record of the answered card has mastery = min(100, round(100*s/threshold))
\* and consecutiveCorrect = s, s being the card's in-session streak.  Read in
\* the weakest way: some stored document holds such a record.
C1_PersistedAfterAnswer ==
    (TestAnswerPending /\ TestSettings.autoSave) =>
        \/ HoldsStreak(profile[AnsweredCard], consecutiveCorrectMap[AnsweredCard])
        \/ HoldsStreak(legacy.mastery[AnsweredCard], consecutiveCorrectMap[AnsweredCard])

\* C2: an answer changes the profile document (the one the application loads)
\* if and only if auto-save is enabled: with auto-save on the answered card's
\* record is upserted (streak, mastery, lastReviewed, attempts + 1), with
\* auto-save off no persisted record changes.
C2_ProfileUpsertIffAutoSave ==
    [][ (activeStudyMode = "test" /\ ~isAnswered /\ isAnswered') =>
          LET c == AnsweredCard IN
          IF TestSettings.autoSave
            THEN /\ HoldsStreak(profile'[c], consecutiveCorrectMap'[c])
                 /\ profile'[c].lastReviewed = "now"
                 /\ profile'[c].attempts = profile[c].attempts + 1
                 /\ \A d \in AllCards \ {c} : profile'[d] = profile[d]
            ELSE profile' = profile /\ legacy' = legacy ]_vars

C10_Requeue ==
    [][ TestAnswerPending =>
          LET head == testQueue[1]
              rest == SeqRemoveHead(testQueue)
              k == Min(Len(rest), 2)
              IsNewEntryAt(i) ==
                  /\ Len(testQueue') = Len(rest) + 1
                  /\ testQueue'[i].originalCardId = head.originalCardId
                  /\ testQueue'[i].id # head.id
                  /\ SubSeq(testQueue', 1, i - 1) = SubSeq(rest, 1, i - 1)
                  /\ SubSeq(testQueue', i + 1, Len(testQueue')) = SubSeq(rest, i, Len(rest))
          IN  IF testFeedback = "correct"
                THEN IF consecutiveCorrectMap[head.originalCardId] < Threshold
                       THEN IsNewEntryAt(Len(rest) + 1)
                       ELSE testQueue' = rest
                ELSE IsNewEntryAt(k + 1) ]_vars

\* Card 1 was answered incorrectly first and re-entered a queue of four at index 2.
C10_Witness ==
    /\ activeStudyMode = "test"
    /\ ~isAnswered
    /\ Len(testQueue) = 4
    /\ [i \in 1..4 |-> testQueue[i].originalCardId] = <<2, 3, 1, 4>>
    /\ testQueue[3].id = 1
    /\ consecutiveCorrectMap[1] = 0


\* The cards that have an entry in the Test queue.
QueuedCards(queue) == {queue[i].originalCardId : i \in 1..Len(queue)}

\* C11: once the entry of a card is advanced past after a correct answer that
\* brought its streak to masteryThreshold or above, the card is not re-queued,
\* and a card without an entry never gets one again in the session.
C11_MasteredNeverRequeued ==
    [][ (activeStudyMode = "test") =>
          /\ (TestAnswerPending /\ testFeedback = "correct"
                /\ consecutiveCorrectMap[AnsweredCard] >= Threshold
                /\ testQueue' # testQueue)
               => AnsweredCard \notin QueuedCards(testQueue')
          /\ \A c \in Range(cards) :
                c \notin QueuedCards(testQueue) => c \notin QueuedCards(testQueue') ]_vars

\* A card reached the threshold and left the queue while others are still asked.
C11_Witness ==
    /\ activeStudyMode = "test" /\ ~isFinished /\ ~isAnswered
    /\ Len(cards) = 3 /\ Len(testQueue) = 2
    /\ \E c \in Range(cards) :
          c \notin QueuedCards(testQueue) /\ consecutiveCorrectMap[c] >= Threshold
    /\ \E i \in 1..2 : testQueue[i].id > 0

\* C20: whenever a Test session is finished, the queue is empty and every card
\* of the set has an in-session streak of at least masteryThreshold.
C20_FinishedMeansAllMastered ==
    (activeStudyMode = "test" /\ isFinished) =>
        /\ testQueue = <<>>
        /\ \A c \in Range(cards) : consecutiveCorrectMap[c] >= Threshold

\* A session on two cards finished after one of them was answered incorrectly
\* on the way (its last entry is a re-queued one).
C20_Witness ==
    /\ activeStudyMode = "test" /\ isFinished /\ Len(cards) = 2
    /\ testQueue = <<>>
    /\ Threshold = 2
    /\ testFeedback = "correct"

\* ---- all engines
\* The card of the question on screen in Memorise mode.
CurrentQuestionCard == currentQueue[currentQuestionIndex + 1]

\* What an answer or a rating scores in each engine.
TestScores == <<consecutiveCorrectMap, legacy, profile>>
MemScores == <<levelMasteredIds, answeredIncorrectlyIds>>

\* C14: no engine scores a queue entry twice.  Test: streak and stored records
\* change only in a step that answers the entry on screen, which then stays
\* answered until the queue moves.  Memorise: the mastered / incorrect sets of
\* the level change only in a step that answers the question on screen, by
\* its card alone, and the question stays answered until the cursor or the
\* queue moves.  Flashcards: a rating touches the record and the mastered set
\* of the card on screen alone and moves the queue or cursor past it in the
\* same step.
C14_NoDoubleScoring ==
    [][ /\ (activeStudyMode = "test") =>
             /\ (TestScores' # TestScores) =>
                   /\ ~isAnswered /\ isAnswered' /\ testQueue' = testQueue
                   /\ \A c \in AllCards \ {AnsweredCard} :
                         /\ consecutiveCorrectMap'[c] = consecutiveCorrectMap[c]
                         /\ legacy'.mastery[c] = legacy.mastery[c]
                   /\ legacy'.mastery[AnsweredCard].attempts
                         <= legacy.mastery[AnsweredCard].attempts + 1
                   /\ consecutiveCorrectMap'[AnsweredCard]
                         \in {0, consecutiveCorrectMap[AnsweredCard] + 1}
             /\ (isAnswered /\ testQueue' = testQueue) => isAnswered'
        /\ (activeStudyMode = "memorise" /\ view = "question") =>
             /\ (MemScores' # MemScores) =>
                   /\ feedback = "none" /\ feedback' # "none"
                   /\ currentQuestionIndex' = currentQuestionIndex
                   /\ currentQueue' = currentQueue
                   /\ (levelMasteredIds' \cup answeredIncorrectlyIds')
                         \ (levelMasteredIds \cup answeredIncorrectlyIds)
                           \subseteq {CurrentQuestionCard}
             /\ (feedback # "none" /\ currentQuestionIndex' = currentQuestionIndex
                    /\ currentQueue' = currentQueue /\ view' = "question")
                   => feedback' = feedback
        /\ (activeStudyMode = "flashcards" /\ sessionState = "active") =>
             /\ \A c \in AllCards \ {CurrentCard} : profile'[c] = profile[c]
             /\ masteredIds' \ masteredIds \subseteq {CurrentCard}
             /\ sessionMasteredCount' - sessionMasteredCount \in {0, 1}
             /\ IF mode = "standard"
                  THEN currentIndex' = currentIndex + 1 \/ sessionState' = "finished"
                  ELSE \E rating \in {"know", "dont_know"} :
                          flashQueue' = MemoriseQueue(flashQueue, rating) ]_vars

\* An entry answered correctly for the second time is on screen, answered,
\* with its streak at two.
C14_Witness ==
    /\ TestAnswerPending /\ testFeedback = "correct"
    /\ testQueue[1].id = 1
    /\ consecutiveCorrectMap[AnsweredCard] = 2
    /\ legacy.mastery[AnsweredCard].attempts = 2

\* A stored CardMasteryRecord is well formed.
WellFormed(rec) ==
    /\ rec.mastery \in 0..100
    /\ rec.consecutiveCorrect \in Nat
    /\ rec.attempts \in Nat

C7_RatingFromPersisted ==
    [][ \A rating \in {"know", "dont_know"} :
          HandleRating(rating) =>
             profile'[CurrentCard].mastery =
                IF rating = "know"
                  THEN Min(100, profile[CurrentCard].mastery + 20)
                  ELSE Max(0, profile[CurrentCard].mastery - 20) ]_vars

\* A memorise-all Flashcards session showing a card.
FlashMemorising ==
    /\ activeStudyMode = "flashcards" /\ mode = "memorise_all"
    /\ sessionState = "active" /\ flashQueue # <<>>

\* C12: in memorise-all mode a "don't know" rating removes the head card and
\* re-inserts it at index min(length after removal, 3); the other cards keep
\* their relative order and the mastered count and set do not change.
C12_DontKnowReinsertedAtThree ==
    [][ (FlashMemorising /\ HandleRating("dont_know")) =>
          LET head == flashQueue[1]
              n == Len(flashQueue)
              k == Min(n - 1, 3)
          IN  /\ Len(flashQueue') = n
              /\ flashQueue'[k + 1] = head
              /\ \A i \in 1..k : flashQueue'[i] = flashQueue[i + 1]
              /\ \A i \in (k + 2)..n : flashQueue'[i] = flashQueue[i]
              /\ sessionMasteredCount' = sessionMasteredCount
              /\ masteredIds' = masteredIds ]_vars

\* Card 1 of five was rated "don't know" first: it is back at index 3, with
\* card 5 still behind it.
C12_Witness ==
    /\ FlashMemorising
    /\ flashQueue = <<2, 3, 4, 1, 5>>
    /\ sessionMasteredCount = 0
    /\ profile[1].lastReviewed = "now"

\* Number of entries of card c in a Flashcards queue.
Occurrences(queue, c) == Cardinality({i \in 1..Len(queue) : queue[i] = c})

\* Every card is queued exactly once or mastered, never both, and the
\* mastered count plus the queue length is the number of cards.
FlashPartition ==
    (activeStudyMode = "flashcards" /\ mode = "memorise_all" /\ sessionState = "active") =>
        /\ \A c \in Range(cards) :
              \/ Occurrences(flashQueue, c) = 1 /\ c \notin masteredIds
              \/ Occurrences(flashQueue, c) = 0 /\ c \in masteredIds
        /\ masteredIds \subseteq Range(cards)
        /\ sessionMasteredCount + Len(flashQueue) = Len(cards)
        /\ flashQueue # <<>>

\* C13: in memorise-all mode a "know" rating removes the head card and adds
\* one to the mastered count; in every state of an active session each card
\* is in the queue exactly once or in masteredIds (never both) and
\* sessionMasteredCount + queue length = number of cards; the session becomes
\* finished exactly when the queue becomes empty.
C13_KnowRemovesAndCounts ==
    [][ (activeStudyMode = "flashcards" /\ mode = "memorise_all") =>
          /\ FlashPartition /\ FlashPartition'
          /\ (FlashMemorising /\ HandleRating("know")) =>
                /\ flashQueue' = Tail(flashQueue)
                /\ sessionMasteredCount' = sessionMasteredCount + 1
                /\ masteredIds' = masteredIds \cup {flashQueue[1]}
          /\ (sessionState = "active") =>
                ((sessionState' = "finished") <=> (flashQueue' = <<>>))
          /\ (sessionState' = "finished") =>
                sessionMasteredCount' = Len(cards) ]_vars

\* Two of three cards are mastered, the third was rated "don't know" and is
\* still queued.
C13_Witness ==
    /\ FlashMemorising
    /\ Len(cards) = 3
    /\ sessionMasteredCount = 2
    /\ Len(flashQueue) = 1
    /\ profile[flashQueue[1]].lastReviewed = "now"

\* ---- Memorise mode
MemActive == activeStudyMode = "memorise"

\* The learner keeps answering and continuing; the timer always fires.
MemFairness ==
    /\ WF_vars(\E isCorrect \in BOOLEAN : ProcessAnswer(isCorrect))
    /\ WF_vars(Advance)
    /\ WF_vars(ProceedToNextLevel)

\* Memorise sessions with the level number recorded only as 1 / later, so
\* that a session of any length is a behaviour.
SpecMemLive == MemInitWith(FALSE) /\ [][MemNext]_vars /\ MemFairness

\* C3: whenever a level ends (the transition screen is reached),
\* overallMasteredIds is its previous value united with every card in
\* levelMasteredIds, the card of the last entry answered included.
C3_LevelMergedAtEnd ==
    [][ (MemActive /\ view = "question" /\ view' = "transition") =>
           overallMasteredIds' = overallMasteredIds \cup levelMasteredIds ]_vars

\* C4: on advancing from the transition screen the carry-over is exactly the
\* cards of the finished level's normal-phase queue that were not mastered in
\* it; the session finishes iff that carry-over and the unseen pool are both
\* empty, otherwise level + 1 starts with that carry-over and the pool.
C4_CarryOverIsLevelUnmastered ==
    [][ (MemActive /\ view = "transition" /\ view' # "transition") =>
          LET expected == levelCards \ levelMasteredIds IN
          IF expected = {} /\ remainingSetCards = <<>>
            THEN view' = "finished"
            ELSE /\ view' = "question"
                 /\ level' = level + 1
                 /\ Range(unmasteredFromPrevLevel') = expected
                 /\ Len(unmasteredFromPrevLevel') = Cardinality(expected) ]_vars

\* C5: in every level the normal-phase queue has at most wordsPerLevel
\* entries: all carry-over cards, then the first (wordsPerLevel - carry-over
\* count) cards of the unseen pool in pool order, which leave the pool.
C5_LevelWithinWordsPerLevel ==
    [][ (MemActive /\ view = "transition" /\ view' = "question") =>
          LET carry == unmasteredFromPrevLevel'
              slots == wordsPerLevel - Len(carry)
              taken == Min(Max(slots, 0), Len(remainingSetCards))
          IN  /\ Len(currentQueue') <= wordsPerLevel
              /\ Len(currentQueue') = Len(carry) + taken
              /\ Range(currentQueue') =
                    Range(carry) \cup Range(SubSeq(remainingSetCards, 1, taken))
              /\ remainingSetCards' =
                    SubSeq(remainingSetCards, taken + 1, Len(remainingSetCards)) ]_vars

\* C6: when the last entry of level 1's normal-phase queue has been answered,
\* retry is enabled and at least one card was missed in that phase (that last
\* entry included), the retry subphase is entered with exactly the missed
\* cards; in every other case, and after the retry subphase, the level ends.
C6_RetryAfterLevelOne ==
    [][ (MemActive /\ view = "question" /\ timer.pending /\ timer' = NoTimer
           /\ currentQuestionIndex = Len(currentQueue) - 1) =>
          IF phase = "normal" /\ level = 1 /\ enableRetryLevel1
               /\ answeredIncorrectlyIds # {}
            THEN /\ phase' = "retry"
                 /\ view' = "question"
                 /\ Range(currentQueue') = answeredIncorrectlyIds
                 /\ Len(currentQueue') = Cardinality(answeredIncorrectlyIds)
            ELSE view' = "transition" ]_vars

\* C19: in a level's normal phase a card enters levelMasteredIds only by a
\* correct answer to it, and only if it was not answered incorrectly or skipped
\* earlier in the level; levelMasteredIds and answeredIncorrectlyIds are always
\* disjoint; an incorrect answer or a "don't know" adds the card to
\* answeredIncorrectlyIds and never to levelMasteredIds.
C19_MasteredOnlyIfNeverMissed ==
    [][ MemActive =>
          /\ levelMasteredIds \cap answeredIncorrectlyIds = {}
          /\ levelMasteredIds' \cap answeredIncorrectlyIds' = {}
          /\ \A c \in levelMasteredIds' \ levelMasteredIds :
                /\ view = "question" /\ phase = "normal"
                /\ feedback = "none" /\ feedback' = "correct"
                /\ c = CurrentQuestionCard
                /\ c \notin answeredIncorrectlyIds
          /\ (view = "question" /\ feedback = "none" /\ feedback' = "incorrect") =>
                /\ levelMasteredIds' = levelMasteredIds
                /\ phase = "normal" => CurrentQuestionCard \in answeredIncorrectlyIds'
                /\ phase # "normal" => answeredIncorrectlyIds' = answeredIncorrectlyIds ]_vars

\* In the normal phase of a later level one card is mastered and another was
\* just missed.
C19_Witness ==
    /\ MemActive /\ view = "question" /\ phase = "normal" /\ level = 2
    /\ feedback = "incorrect"
    /\ Cardinality(levelMasteredIds) = 1
    /\ Cardinality(answeredIncorrectlyIds) = 1

\* C9: every Memorise session reaches the finished view after finitely many
\* answers and level transitions.  Stated for the learner the claim can be
\* about at all: one who gives only finitely many incorrect answers or
\* skips (a card missed in a level is carried over by design).
C9_MemoriseFinishes ==
    MemActive => ([]<>(feedback = "incorrect") \/ <>(view = "finished"))

\* -------------------------------------------------- claims: building questions
\* initTest has built the questions of the session.
QuestionsBuilt ==
    activeStudyMode = "test" /\ ~isLoading /\ Len(questionOptions) = Len(cards)

\* C16: every question of the initial Test queue has exactly numberOfChoices
\* options, the card's definition once and numberOfChoices - 1 distractors,
\* whether the provider answered nothing, too few strings or enough of them.
C16_ExactlyNumberOfChoices ==
    QuestionsBuilt =>
        \A i \in 1..Len(questionOptions) :
            /\ Len(questionOptions[i]) = numberOfChoices
            /\ Occurrences(questionOptions[i], definitions[cards[i]]) = 1

\* The definitions of the cards other than the one asked about.
OtherDefinitions == {definitions[c] : c \in Range(cards) \ {correctCard}}

\* C17: getFallbackDistractors returns no string twice and never the correct
\* card's definition; the result is made of other cards' definitions, with
\* the generic fillers only once those are used up; for a set of two cards
\* and count 3 it is the other definition and two fillers.
C17_FallbackDistinctWithoutCorrect ==
    fallbackResult.called =>
        LET result == fallbackResult.value
        IN  /\ Cardinality(Range(result)) = Len(result)
            /\ definitions[correctCard] \notin Range(result)
            /\ Range(result) \subseteq OtherDefinitions \cup Range(GenericDistractors)
            /\ (Range(result) \cap Range(GenericDistractors) # {}) =>
                  OtherDefinitions \subseteq Range(result)
            /\ (Len(cards) = 2 /\ count = 3) =>
                  /\ Len(result) = 3
                  /\ Cardinality(Range(result) \cap OtherDefinitions) = 1
                  /\ Cardinality(Range(result) \cap Range(GenericDistractors)) = 2

\* ------------------------------------------------------ claims: persistence
\* C18: when the storage write throws while an answer or a rating is being
\* recorded, the failure is swallowed: the session stays on screen, and in
\* Test mode the answered card's streak is updated as usual.
C18_WriteFailureSwallowed ==
    [][ storageThrows =>
          /\ mounted'
          /\ (activeStudyMode = "test" /\ ~isAnswered /\ isAnswered') =>
                LET c == testQueue[1].originalCardId
                IN  consecutiveCorrectMap'[c] =
                       IF testFeedback' = "correct"
                         THEN consecutiveCorrectMap[c] + 1 ELSE 0 ]_vars

\* -------------------------------------------------- claims: the Mastery Store
\* The card's stored record has just been written.
Written(c) ==
    \/ profile'[c].exists /\ profile'[c].lastReviewed = "now"
    \/ legacy'.mastery[c].exists /\ legacy'.mastery[c].lastReviewed = "now"

\* C21: each engine writes the Mastery Store: a rating in Flashcards, an
\* answer or a skip in Memorise mode and an answer in Test mode each update
\* the persisted record of the card concerned.
C21_EveryEngineWritesMastery ==
    [][ /\ (activeStudyMode = "flashcards" /\ sessionState = "active"
               /\ <<flashQueue, currentIndex, sessionState>>'
                     # <<flashQueue, currentIndex, sessionState>>) =>
              Written(CurrentCard)
        /\ (activeStudyMode = "memorise" /\ view = "question"
               /\ feedback = "none" /\ feedback' # "none") =>
              Written(CurrentQuestionCard)
        /\ (activeStudyMode = "test" /\ ~isAnswered /\ isAnswered') =>
              Written(AnsweredCard) ]_vars

\* ------------------------------------------------- claims: ending a session
\* The step in which the session on screen is ended.
SessionEnds == mounted /\ ~mounted'

\* C22: when a session of any of the three modes ends, lastStudiedDate
\* becomes today and studyStreak is kept if the last studied date was
\* already today, incremented by one if it was the previous day, and set to
\* 1 otherwise.
C22_StreakCommittedAtSessionEnd ==
    [][ SessionEnds =>
          /\ lastStudiedDate' = today
          /\ studyStreak' =
                IF lastStudiedDate = today THEN studyStreak
                ELSE IF lastStudiedDate # NoDate /\ lastStudiedDate = today - 1
                  THEN studyStreak + 1
                ELSE 1 ]_vars

\* ------------------------------------------------ claims: Test mode streaks
\* C23: in Test mode an answer changes the answered card's in-session streak
\* alone, by +1 when correct and to 0 when incorrect; every card's streak
\* stays between 0 and masteryThreshold, also when a language change has
\* the streaks reseeded.
C23_StreakWithinThreshold ==
    [][ activeStudyMode = "test" =>
          /\ \A c \in Range(cards) :
                /\ consecutiveCorrectMap[c] \in 0..Threshold
                /\ consecutiveCorrectMap'[c] \in 0..Threshold
          /\ (~isAnswered /\ isAnswered') =>
                /\ \A c \in AllCards \ {AnsweredCard} :
                      consecutiveCorrectMap'[c] = consecutiveCorrectMap[c]
                /\ consecutiveCorrectMap'[AnsweredCard] =
                      IF selectedAnswer' = Definition(AnsweredCard)
                        THEN consecutiveCorrectMap[AnsweredCard] + 1
                        ELSE 0 ]_vars

\* An entry re-queued at least twice has just been answered incorrectly
\* while another card holds a streak at the threshold.
C23_Witness ==
    /\ TestAnswerPending /\ testFeedback = "incorrect"
    /\ testQueue[1].id >= 2
    /\ consecutiveCorrectMap[AnsweredCard] = 0
    /\ \E c \in Range(cards) : consecutiveCorrectMap[c] = Threshold

\* ------------------------------------------- claims: Memorise feedback delay
\* An entry of the Memorise queue is answered and its feedback is on screen.
FeedbackShown == view = "question" /\ feedback # "none"

\* C24: in Memorise mode an answered or skipped entry has exactly one
\* auto-advance pending; until it fires no answer, skip or advance can be
\* triggered; when it fires it moves the cursor forward by one entry or, on
\* the last entry, runs the end-of-queue handling (retry phase or
\* transition screen), and nothing is pending afterwards.
C24_OneAutoAdvancePerEntry ==
    [][ (MemActive /\ mounted) =>
          /\ timer.pending <=> FeedbackShown
          /\ timer'.pending <=> FeedbackShown'
          /\ FeedbackShown =>
                /\ ~timer'.pending
                /\ levelMasteredIds' = levelMasteredIds
                /\ answeredIncorrectlyIds' = answeredIncorrectlyIds
                /\ IF currentQuestionIndex < Len(currentQueue) - 1
                     THEN /\ currentQuestionIndex' = currentQuestionIndex + 1
                          /\ currentQueue' = currentQueue
                          /\ view' = "question"
                          /\ phase' = phase
                     ELSE \/ view' = "transition"
                          \/ /\ phase = "normal" /\ phase' = "retry"
                             /\ currentQuestionIndex' = 0
          /\ (view = "question" /\ ~FeedbackShown) =>
                /\ FeedbackShown'
                /\ currentQuestionIndex' = currentQuestionIndex
                /\ currentQueue' = currentQueue ]_vars

\* The second entry of a level is answered and waits for its auto-advance.
C24_Witness ==
    /\ MemActive /\ mounted
    /\ FeedbackShown /\ timer.pending
    /\ currentQuestionIndex = 1
    /\ Len(currentQueue) = 3

\* C25: when the Memorise session is torn down while a feedback delay is
\* pending, the pending auto-advance is cancelled: a torn-down session has no
\* auto-advance left to run, so it performs no cursor advance, retry-phase
\* start or level finish.
C25_AutoAdvanceCancelledAtTeardown ==
    (MemActive /\ ~mounted) => ~timer.pending

\* ------------------------------------------- claims: Flashcards standard mode
FlashStandard == activeStudyMode = "flashcards" /\ mounted /\ mode = "standard"

\* C26: in Flashcards standard mode a rating leaves the queue as it is (the
\* initial cards in their initial order) and moves the cursor forward by
\* one, so the cards are shown once each in that order; the rating of the
\* last card, and no earlier one, finishes the session.
C26_StandardCursorOverFixedQueue ==
    [][ (FlashStandard /\ sessionState = "active") =>
          /\ flashQueue = initialCards
          /\ flashQueue' = flashQueue
          /\ CurrentCard = initialCards[currentIndex + 1]
          /\ IF currentIndex + 1 < Len(initialCards)
               THEN /\ sessionState' = "active"
                    /\ currentIndex' = currentIndex + 1
               ELSE /\ sessionState' = "finished"
                    /\ currentIndex' = currentIndex
          /\ (sessionState' = "finished") => currentIndex' + 1 = Len(initialCards) ]_vars

\* A standard session over three cards has finished on the third rating.
C26_Witness ==
    /\ FlashStandard /\ sessionState = "finished"
    /\ Len(initialCards) = 3 /\ currentIndex = 2
    /\ flashQueue = initialCards

\* ------------------------------------------ claims: Memorise mode, levels
\* C27: a card that is in levelMasteredIds when a level ends is in the queue
\* of no later level.
C27_MasteredNeverInLaterLevel ==
    \A c \in AllCards : \A k \in 1..MaxLevel :
        [](  (MemActive /\ level = k /\ view = "transition" /\ c \in levelMasteredIds)
             => [](level > k => c \notin Range(currentQueue)) )

\* ---------------------------------------------- claims: Test mode, the queue
\* C28: the Test queue holds at most one entry per card (so no two entries
\* share an instance id, which names the card and its generation); an
\* advance leaves its length unchanged or shortens it by one; it is never
\* longer than the set.
C28_OneEntryPerCard ==
    [][ activeStudyMode = "test" =>
          /\ \A i, j \in 1..Len(testQueue') :
                i # j => testQueue'[i].originalCardId # testQueue'[j].originalCardId
          /\ \A i, j \in 1..Len(testQueue) :
                i # j => testQueue[i] # testQueue[j]
          /\ Len(testQueue') \in {Len(testQueue), Len(testQueue) - 1}
          /\ Len(testQueue) <= Len(cards) ]_vars

\* One card of four has left the queue; the three others are queued once
\* each as re-queued entries.
C28_Witness ==
    /\ activeStudyMode = "test" /\ ~isAnswered
    /\ Len(cards) = 4 /\ Len(testQueue) = 3
    /\ \A i \in 1..3 : testQueue[i].id > 0

\* C29: whenever Next can be pressed in Test mode, the head of the queue is
\* the entry the recorded answer was given to: the classification handleNext
\* derives from selectedAnswer is the one handleAnswer displayed, and the
\* head card's streak is the one that answer left (at least 1 after a
\* correct answer, 0 after an incorrect one), language changes included.
C29_NextActsOnAnsweredEntry ==
    (TestAnswerPending /\ mounted /\ ~isLoading) =>
        /\ (selectedAnswer = Definition(AnsweredCard)) <=> (testFeedback = "correct")
        /\ IF testFeedback = "correct"
             THEN consecutiveCorrectMap[AnsweredCard] >= 1
             ELSE consecutiveCorrectMap[AnsweredCard] = 0

\* A memorise-all session of Flashcards is on its active screen.
FlashMemoriseActive ==
    activeStudyMode = "flashcards" /\ mounted /\ sessionState = "active" /\ mode = "memorise_all"

\* C30: in Flashcards memorise-all mode, while ratings keep coming and the
\* queue is never emptied, every card in the queue eventually becomes the
\* head card on display.
C30_EveryQueuedCardReachesHead ==
    \A c \in 1..UnshuffledCards :
        (FlashMemoriseActive /\ c \in Range(flashQueue))
            ~> (~FlashMemoriseActive \/ CurrentCard = c)

\* The same for sets of at most four cards.
C30_UpToFourCards ==
    \A c \in 1..UnshuffledCards :
        (FlashMemoriseActive /\ Len(cards) <= 4 /\ c \in Range(flashQueue))
            ~> (~FlashMemoriseActive \/ CurrentCard = c)

====
